---------------------------- MODULE Spec2Model ----------------------------
(***************************************************************************)
(* State-machine model of src/main.py: the /search_smk handler, the two    *)
(* upstream clients, the relevance scorer, the fuzzy title filter and the  *)
(* result expander.                                                        *)
(*                                                                         *)
(* A Python str is a sequence of one-character strings.  An Optional value *)
(* is a record [present, val].  A relevance is kept in tenths (0.5 is 5):  *)
(* the floating-point sums the scorer can form are 0, .2, .3, .4, .5, .7,  *)
(* .8, 0.8999999999999999, 1.0 and 1.2, each reached by one value only, so *)
(* the order and the equalities of the floats are those of the tenths.     *)
(***************************************************************************)
EXTENDS Naturals, Sequences, FiniteSets

VARIABLES query, processor, pc, catalog, keys, items, best_match_items,
          results, fetchLog, pos, filtered_results, relatedCalls,
          response, error

vars == <<query, processor, pc, catalog, keys, items, best_match_items,
          results, fetchLog, pos, filtered_results, relatedCalls,
          response, error>>

(***************************************************************************)
(* Bounds of the model.                                                    *)
(***************************************************************************)
\* Longest catalog answer (number of items) the model enumerates.
MaxItems == 3

(***************************************************************************)
(* Strings.                                                                *)
(***************************************************************************)
UpperChars == <<"A","B","C","D","E","F","G","H","I","J","K","L","M",
                "N","O","P","Q","R","S","T","U","V","W","X","Y","Z">>

LowerChars == <<"a","b","c","d","e","f","g","h","i","j","k","l","m",
                "n","o","p","q","r","s","t","u","v","w","x","y","z">>

DigitChars == <<"0","1","2","3","4","5","6","7","8","9">>

Range(s) == {s[i] : i \in 1..Len(s)}

\* The characters of the strings the model handles.
Alphabet ==
    Range(UpperChars) \cup Range(LowerChars) \cup Range(DigitChars)
        \cup {" ", "æ", "ø", "å"}

\* str.lower() on each character of the alphabet.
LowerMap ==
    [c \in Alphabet |->
        IF c \in Range(UpperChars)
        THEN LowerChars[CHOOSE i \in 1..Len(UpperChars) : UpperChars[i] = c]
        ELSE c]

\* str.lower() on one character.
LowerChar(c) == LowerMap[c]

\* str.lower()
Lower(s) == [i \in 1..Len(s) |-> LowerChar(s[i])]

\* Python's `sub in s` for strings: sub occurs as a contiguous slice of s.
Contains(s, sub) ==
    \E k \in 0..Len(s) :
        /\ k + Len(sub) <= Len(s)
        /\ \A i \in 1..Len(sub) : s[k + i] = sub[i]

\* sep.join(parts)
RECURSIVE Join(_, _)
Join(parts, sep) ==
    IF parts = <<>> THEN <<>>
    ELSE IF Len(parts) = 1 THEN parts[1]
    ELSE parts[1] \o sep \o Join(Tail(parts), sep)

Max2(a, b) == IF a >= b THEN a ELSE b

Min2(a, b) == IF a <= b THEN a ELSE b

Some(v) == [present |-> TRUE, val |-> v]

NoneVal == [present |-> FALSE, val |-> <<>>]


(***************************************************************************)
(* rapidfuzz, as line 203 uses it.  fuzz.ratio is the normalised Indel     *)
(* similarity, 100 * 2 * LCS(a, b) / (len(a) + len(b)), and 100 for two    *)
(* empty strings.  The model keeps its integer part: ratio >= 80 is the    *)
(* same comparison for the float and for its floor.                        *)
(***************************************************************************)
RECURSIVE LcsRowBuild(_, _, _, _)
LcsRowBuild(prev, c, b, acc) ==
    IF Len(acc) = Len(b) + 1 THEN acc
    ELSE LET j == Len(acc)
         IN  LcsRowBuild(prev, c, b,
                 Append(acc, IF c = b[j] THEN prev[j] + 1
                             ELSE Max2(prev[j + 1], acc[j])))

RECURSIVE LcsRows(_, _, _)
LcsRows(a, b, prev) ==
    IF a = <<>> THEN prev[Len(b) + 1]
    ELSE LcsRows(Tail(a), b, LcsRowBuild(prev, Head(a), b, <<0>>))

\* Length of the longest common subsequence of a and b.
LCSLength(a, b) == LcsRows(a, b, [j \in 1..(Len(b) + 1) |-> 0])

\* fuzz.ratio(a, b)
ratio(a, b) ==
    IF Len(a) + Len(b) = 0 THEN 100
    ELSE (200 * LCSLength(a, b)) \div (Len(a) + Len(b))

\* str.isalnum() on each character of the alphabet.
AlnumMap == [c \in Alphabet |-> c # " "]

IsAlnum(c) == AlnumMap[c]

RECURSIVE LStrip(_)
LStrip(s) == IF s # <<>> /\ Head(s) = " " THEN LStrip(Tail(s)) ELSE s

RECURSIVE RStrip(_)
RStrip(s) ==
    IF s # <<>> /\ s[Len(s)] = " " THEN RStrip(SubSeq(s, 1, Len(s) - 1)) ELSE s

\* rapidfuzz.utils.default_process: lower-case, every non-alphanumeric
\* character to a space, leading and trailing spaces removed.
default_process(s) ==
    LStrip(RStrip([i \in 1..Len(s) |->
        IF IsAlnum(s[i]) THEN LowerChar(s[i]) ELSE " "]))

\* process.extractOne's processor argument is not given at line 203, so the
\* installed rapidfuzz decides it: None from 3.0 on, default_process before.
Processors == {"none", "default_process"}

Preprocess(proc, s) == IF proc = "default_process" THEN default_process(s) ELSE s

\* The scorer on a processed pair, as extractOne applies it.
Score(proc, q, choice) == ratio(Preprocess(proc, q), Preprocess(proc, choice))

\* Best ratio of `q` against choices[1..n] and the first index reaching it.
RECURSIVE BestOf(_, _, _, _)
BestOf(proc, q, choices, n) ==
    LET here == Score(proc, q, choices[n])
    IN  IF n = 1 THEN [score |-> here, index |-> 1]
        ELSE LET before == BestOf(proc, q, choices, n - 1)
             IN  IF here > before.score THEN [score |-> here, index |-> n]
                 ELSE before

\* process.extractOne(query, choices, scorer=fuzz.ratio): None for no
\* choices, else the (choice, score, index) of the best-scoring choice.
extractOne(proc, q, choices) ==
    IF choices = <<>> THEN NoneVal
    ELSE LET b == BestOf(proc, q, choices, Len(choices))
         IN  Some([choice |-> choices[b.index], score |-> b.score,
                   index |-> b.index])

(***************************************************************************)
(* get_search_query (lines 40-57).                                         *)
(***************************************************************************)
S_OR == <<" ","O","R"," ">>

synonyms ==
    << [term |-> <<"l","a","n","d","s","k","a","b">>,
        syns |-> << <<"l","a","n","d","s","k","a","b">>,
                    <<"n","a","t","u","r">>,
                    <<"u","d","s","i","g","t">>,
                    <<"p","a","n","o","r","a","m","a">> >>],
       [term |-> <<"p","o","r","t","r","æ","t">>,
        syns |-> << <<"p","o","r","t","r","æ","t">>,
                    <<"a","n","s","i","g","t">>,
                    <<"b","u","s","t","e">>,
                    <<"p","e","r","s","o","n">> >>],
       [term |-> <<"a","b","s","t","r","a","k","t">>,
        syns |-> << <<"a","b","s","t","r","a","k","t">>,
                    <<"n","o","n","f","i","g","u","r","a","t","i","v">>,
                    <<"f","o","r","m","l","ø","s">> >>],
       [term |-> <<"b","l","o","m","s","t">>,
        syns |-> << <<"b","l","o","m","s","t">>,
                    <<"p","l","a","n","t","e">>,
                    <<"f","l","o","r","a">>,
                    <<"r","o","s","e">>,
                    <<"t","u","l","i","p","a","n">>,
                    <<"l","i","l","j","e">> >>] >>

\* The local expanded_query after the loop of lines 51-55: the lowered query,
\* replaced by the OR-join of the first table entry whose term it contains.
expanded_query(q) ==
    LET low  == Lower(q)
        hits == {i \in 1..Len(synonyms) : Contains(low, synonyms[i].term)}
    IN  IF hits = {} THEN low
        ELSE LET first == CHOOSE i \in hits : \A j \in hits : i <= j
             IN  Join(synonyms[first].syns, S_OR)

\* Faulty variant: the expansion is returned.
get_search_query_expanded(q) == expanded_query(q)

\* Line 57 returns the parameter, not expanded_query.
get_search_query(q) == q

(***************************************************************************)
(* calculate_relevance (lines 114-145), in tenths.                         *)
(***************************************************************************)
TitleScore == 5

CreatorScore == 3

DescriptionScore == 2

EnrichmentScore == 2

MaxScore == 10

\* Lines 128-131: the first matching title adds 0.5 and ends the loop.
TitleContribution(item, query_lower) ==
    IF \E i \in 1..Len(item.titles) : Contains(Lower(item.titles[i]), query_lower)
    THEN TitleScore ELSE 0

\* Lines 132-133.
CreatorContribution(item, query_lower) ==
    IF Contains(Lower(item.creator), query_lower) THEN CreatorScore ELSE 0

\* Truth value of an Optional[str]: None and "" are both false.
Truthy(opt) == opt.present /\ opt.val # <<>>

\* Lines 134-135.
DescriptionContribution(item, query_lower) ==
    IF Truthy(item.description) /\ Contains(Lower(item.description.val), query_lower)
    THEN DescriptionScore ELSE 0

\* The test of lines 140-142 (and 165-167): the attribute is neither None nor
\* an empty list and one of its entries contains the lowered query.  An
\* EnrichmentData object itself is always true (`if enrichment:`).
EnrichmentMatches(enrichment, query_lower) ==
    /\ Truthy(enrichment.desc_attr)
    /\ \E i \in 1..Len(enrichment.desc_attr.val) :
           Contains(Lower(enrichment.desc_attr.val[i]), query_lower)

\* Lines 138-144.
EnrichmentContribution(enrichment, query_lower) ==
    IF EnrichmentMatches(enrichment, query_lower) THEN EnrichmentScore ELSE 0

\* Faulty variant: the sum is returned unclamped.
calculate_relevance_unclamped(item, enrichment, q) ==
    TitleContribution(item, Lower(q)) + CreatorContribution(item, Lower(q))
      + DescriptionContribution(item, Lower(q))
      + EnrichmentContribution(enrichment, Lower(q))

calculate_relevance(item, enrichment, q) ==
    LET query_lower == Lower(q)
        score == TitleContribution(item, query_lower)
                   + CreatorContribution(item, query_lower)
                   + DescriptionContribution(item, query_lower)
                   + EnrichmentContribution(enrichment, query_lower)
    IN  Min2(MaxScore, score)

(***************************************************************************)
(* The inputs the model enumerates.                                        *)
(***************************************************************************)
S_rose == <<"r","o","s","e">>

S_Ro == <<"R","o">>

S_Blomst == <<"B","l","o","m","s","t">>

S_RedRose == <<"R","e","d"," ","R","o","s","e">>

S_Tulip == <<"T","u","l","i","p">>

S_roses == <<"r","o","s","e","s">>

S_Anon == <<"A","n","o","n">>

S_Rosen == <<"R","o","s","e","n">>

S_ARose == <<"A"," ","R","o","s","e">>

\* The query parameter of POST /search_smk: any str, the empty one included.
Queries == {S_rose, S_Ro, S_Blomst, <<>>}

\* SMKItem (lines 20-25).
SMKItem(id, titles, creator, description) ==
    [object_number |-> id, titles |-> titles, creator |-> creator,
     image_thumbnail |-> NoneVal, description |-> description]

\* The records the catalog provider holds: one title below the threshold and
\* no description; two titles, one above the threshold, with a creator and a
\* description containing "rose"; no title at all; two titles containing
\* "rose", one of them equal to it, with an empty creator and an empty
\* description.
ItemPool ==
    { SMKItem("KMS1", <<S_RedRose>>, S_Anon, NoneVal),
      SMKItem("KMS2", <<S_Tulip, S_roses>>, S_Rosen, Some(S_ARose)),
      SMKItem("KMS3", <<>>, S_Anon, NoneVal),
      SMKItem("KMS5", <<S_rose, S_Rosen>>, <<>>, Some(<<>>)) }

RECURSIVE SeqsUpTo(_, _)
\* The sequences of at most n elements of S with no element repeated (an
\* object_number identifies one record of a catalog answer).
SeqsUpTo(S, n) ==
    IF n = 0 THEN {<<>>}
    ELSE LET shorter == SeqsUpTo(S, n - 1)
         IN  shorter \cup {Append(q, x) : q \in {r \in shorter : Len(r) = n - 1},
                                          x \in S}

CatalogAnswers ==
    {a \in SeqsUpTo(ItemPool, MaxItems) :
        \A i, j \in 1..Len(a) : i # j => a[i] # a[j]}

\* EnrichmentData (lines 28-31).  name_attr and desc_attr stand for the two
\* Optional[List[str]] fields, whose names are not ASCII identifiers.
EnrichmentData(name_attr, desc_attr) ==
    [name_attr |-> name_attr, desc_attr |-> desc_attr]

\* EnrichmentData(): every field None.
EmptyEnrichment == EnrichmentData(NoneVal, NoneVal)

\* The "data" objects the enrichment provider holds: no attribute, an empty
\* description list, a description list whose second and third entries
\* contain "rose".
EnrichmentPool ==
    { EmptyEnrichment,
      EnrichmentData(NoneVal, Some(<<>>)),
      EnrichmentData(NoneVal, Some(<<S_Tulip, S_ARose, S_rose>>)) }

\* The titles of the catalog's records.
AllTitles == UNION {Range(it.titles) : it \in ItemPool}

\* fuzz.ratio of every query against every title after each processor,
\* computed once.
RatioTable ==
    [proc \in Processors, q \in Queries, t \in AllTitles |->
        ratio(Preprocess(proc, q), Preprocess(proc, t))]

\* How an upstream call ends: a body that parses, a transport error
\* (requests.get raises), a non-success status (raise_for_status raises), a
\* body that is not the expected JSON or fails the pydantic model.
Outcomes == {"ok", "transport", "status", "malformed"}

(***************************************************************************)
(* The upstream clients.                                                   *)
(***************************************************************************)
HTTPException(status_code, detail) ==
    [status_code |-> status_code, detail |-> detail]

InternalError == 500

\* Faulty variant: a failed catalog call is answered as "no items".
fetch_smk_data_swallowing(outcome, answer) ==
    [raised |-> FALSE, value |-> IF outcome = "ok" THEN answer ELSE <<>>,
     exc |-> HTTPException(0, "")]

\* Faulty variant: an answer with no items is taken for a failure.
fetch_smk_data_empty_is_error(outcome, answer) ==
    IF outcome = "ok" /\ answer # <<>>
    THEN [raised |-> FALSE, value |-> answer, exc |-> HTTPException(0, "")]
    ELSE [raised |-> TRUE, value |-> <<>>,
          exc |-> HTTPException(500, "Uventet fejl")]

\* fetch_smk_data (lines 59-87): the items of a body that parses (none is the
\* empty list), HTTPException(500) for a RequestException (line 84) and for
\* any other exception, the pydantic ValidationError included (line 87).
fetch_smk_data(outcome, answer) ==
    CASE outcome = "ok" ->
           [raised |-> FALSE, value |-> answer, exc |-> HTTPException(0, "")]
      [] outcome \in {"transport", "status"} ->
           [raised |-> TRUE, value |-> <<>>,
            exc |-> HTTPException(InternalError,
                                  "Fejl ved hentning af data fra SMK API")]
      [] OTHER ->
           [raised |-> TRUE, value |-> <<>>,
            exc |-> HTTPException(InternalError, "Uventet fejl")]

\* Faulty variant: a failed enrichment call raises instead of being absorbed.
fetch_enrichment_data_raising(outcome, body) ==
    [raised |-> outcome # "ok",
     value |-> IF outcome = "ok" THEN body.val ELSE EmptyEnrichment]

\* fetch_enrichment_data (lines 91-112): EnrichmentData(**data) of a body
\* that parses, EnrichmentData() for a RequestException (line 109) and for
\* any other exception (line 112); nothing is raised.
fetch_enrichment_data(outcome, body) ==
    [raised |-> FALSE,
     value |-> IF outcome = "ok" THEN body.val ELSE EmptyEnrichment]

(***************************************************************************)
(* The steps of search_smk (lines 188-224).                                *)
(***************************************************************************)
FuzzyThreshold == 80

CombinedResult(item, enrichment, relevance) ==
    [item |-> item, enrichment |-> enrichment, relevance |-> relevance]

\* Line 204 on one item whose titles are not empty.
PassesThreshold(proc, q, item) ==
    extractOne(proc, q, item.titles).val.score >= FuzzyThreshold

\* Faulty variant: lines 206-207 left out.
FuzzyFilterNoOverride(proc, q, its) ==
    IF \E i \in 1..Len(its) : ~extractOne(proc, q, its[i].titles).present
    THEN [raised |-> TRUE, value |-> <<>>]
    ELSE [raised |-> FALSE,
          value |-> SelectSeq(its, LAMBDA it : PassesThreshold(proc, q, it))]

\* Lines 201-207.  extractOne returns None for an item with no title, and
\* best_match[1] then raises TypeError.
FuzzyFilter(proc, q, its) ==
    IF \E i \in 1..Len(its) : ~extractOne(proc, q, its[i].titles).present
    THEN [raised |-> TRUE, value |-> <<>>]
    ELSE LET best == SelectSeq(its, LAMBDA it : PassesThreshold(proc, q, it))
         IN  [raised |-> FALSE, value |-> IF best = <<>> THEN its ELSE best]

\* x put into the descending sequence s before the first element it
\* outranks when `strict`, before the first it equals or outranks otherwise.
RECURSIVE InsertDesc(_, _, _)
InsertDesc(s, x, strict) ==
    IF s = <<>> THEN <<x>>
    ELSE IF (strict /\ x.relevance > Head(s).relevance)
             \/ (~strict /\ x.relevance >= Head(s).relevance)
         THEN <<x>> \o s
         ELSE <<Head(s)>> \o InsertDesc(Tail(s), x, strict)

RECURSIVE SortWith(_, _, _)
SortWith(s, acc, strict) ==
    IF s = <<>> THEN acc
    ELSE SortWith(Tail(s), InsertDesc(acc, Head(s), strict), strict)

\* Faulty variant: a sort that is descending but puts a later element before its
\* equals.
sort_unstable(rs) == SortWith(rs, <<>>, FALSE)

\* Line 214: list.sort(key=relevance, reverse=True), which is stable.
sort_by_relevance(rs) == SortWith(rs, <<>>, TRUE)

\* Faulty variant: the loop of line 209 runs over everything the catalog returned.
CandidatesUnfiltered(best, its) == its

\* Line 209: the loop runs over best_match_items.
Candidates(best, its) == best

\* find_related_works (lines 175-185).
find_related_works(object_number) == <<>>

\* Line 169 is an await expression in a function that line 147 declares with
\* def, not async def.  The expression either yields the value of the call or
\* raises; the model takes both.
AwaitOutcomes == {"value", "raise"}

Init ==
    /\ query \in Queries
    /\ processor \in Processors
    /\ pc = "catalog"
    /\ catalog = "none"
    /\ keys = NoneVal
    /\ items = <<>>
    /\ best_match_items = <<>>
    /\ results = <<>>
    /\ fetchLog = <<>>
    /\ pos = 0
    /\ filtered_results = <<>>
    /\ relatedCalls = <<>>
    /\ response = NoneVal
    /\ error = NoneVal

\* Line 199: the catalog call.  fetch_smk_data is called directly, so its
\* Depends(get_search_query) is not resolved and the handler's own query
\* parameter is the search term.
FetchCatalog ==
    /\ pc = "catalog"
    /\ \E outcome \in Outcomes :
         \E answer \in (IF outcome = "ok" THEN CatalogAnswers ELSE {<<>>}) :
           LET r == fetch_smk_data(outcome, answer)
           IN  /\ catalog' = outcome
               /\ keys' = Some(query)
               /\ IF r.raised
                  THEN /\ pc' = "error"
                       /\ error' = Some(r.exc)
                       /\ items' = items
                  ELSE /\ pc' = "fuzzy"
                       /\ error' = error
                       /\ items' = r.value
    /\ UNCHANGED <<query, processor, best_match_items, results, fetchLog, pos,
                   filtered_results, relatedCalls, response>>

\* Lines 201-207; a TypeError goes to line 224.
FuzzyMatch ==
    /\ pc = "fuzzy"
    /\ LET r == FuzzyFilter(processor, query, items)
       IN  IF r.raised
           THEN /\ pc' = "error"
                /\ error' = Some(HTTPException(InternalError, "Uventet fejl"))
                /\ best_match_items' = best_match_items
           ELSE /\ pc' = "enrich"
                /\ error' = error
                /\ best_match_items' = r.value
    /\ UNCHANGED <<query, processor, catalog, keys, items, results, fetchLog,
                   pos, filtered_results, relatedCalls, response>>

\* Lines 209-213, one iteration.
FetchEnrichment ==
    /\ pc = "enrich"
    /\ Len(results) < Len(Candidates(best_match_items, items))
    /\ LET item == Candidates(best_match_items, items)[Len(results) + 1]
       IN  \E outcome \in Outcomes :
             \E body \in (IF outcome = "ok"
                          THEN {Some(d) : d \in EnrichmentPool}
                          ELSE {NoneVal}) :
               LET r == fetch_enrichment_data(outcome, body)
               IN  /\ fetchLog' = Append(fetchLog,
                                    [object_number |-> item.object_number,
                                     outcome |-> outcome, body |-> body])
                   /\ IF r.raised
                      THEN /\ pc' = "error"
                           /\ error' = Some(HTTPException(InternalError,
                                                          "Uventet fejl"))
                           /\ results' = results
                      ELSE /\ pc' = pc
                           /\ error' = error
                           /\ results' = Append(results,
                                  CombinedResult(item, r.value,
                                      calculate_relevance(item, r.value, query)))
    /\ UNCHANGED <<query, processor, catalog, keys, items, best_match_items,
                   pos, filtered_results, relatedCalls, response>>

\* Line 214, after the loop.
Sort ==
    /\ pc = "enrich"
    /\ Len(results) = Len(Candidates(best_match_items, items))
    /\ results' = sort_by_relevance(results)
    /\ pc' = "expand"
    /\ UNCHANGED <<query, processor, catalog, keys, items, best_match_items,
                   fetchLog, pos, filtered_results, relatedCalls, response,
                   error>>

\* filter_and_expand_results (lines 159-172), one iteration.
Expand ==
    /\ pc = "expand"
    /\ pos < Len(results)
    /\ pos' = pos + 1
    /\ LET result == results[pos + 1]
       IN  IF EnrichmentMatches(result.enrichment, Lower(query))
           THEN \E outcome \in AwaitOutcomes :
                  /\ relatedCalls' = Append(relatedCalls,
                                            result.item.object_number)
                  /\ IF outcome = "value"
                     THEN /\ filtered_results' =
                                Append(filtered_results, result)
                                  \o find_related_works(result.item.object_number)
                          /\ pc' = pc
                          /\ error' = error
                     ELSE /\ filtered_results' = Append(filtered_results, result)
                          /\ pc' = "error"
                          /\ error' = Some(HTTPException(InternalError,
                                                         "Uventet fejl"))
           ELSE /\ filtered_results' = Append(filtered_results, result)
                /\ UNCHANGED <<relatedCalls, pc, error>>
    /\ UNCHANGED <<query, processor, catalog, keys, items, best_match_items,
                   results, fetchLog, response>>

\* Lines 173 and 215-216.
Return ==
    /\ pc = "expand"
    /\ pos = Len(results)
    /\ response' = Some(filtered_results)
    /\ pc' = "done"
    /\ UNCHANGED <<query, processor, catalog, keys, items, best_match_items,
                   results, fetchLog, pos, filtered_results, relatedCalls,
                   error>>

Next ==
    \/ FetchCatalog
    \/ FuzzyMatch
    \/ FetchEnrichment
    \/ Sort
    \/ Expand
    \/ Return

Spec == Init /\ [][Next]_vars

(***************************************************************************)
(* Vocabulary of the properties.                                           *)
(***************************************************************************)
\* q is a case-insensitive substring of text.
ContainsCI(text, q) == Contains(Lower(text), Lower(q))

Ind(b) == IF b THEN 1 ELSE 0

AnyTitleContains(item, q) ==
    \E i \in 1..Len(item.titles) : ContainsCI(item.titles[i], q)

\* The enrichment description-attribute is present, non-empty and one of its
\* entries contains q.
AnyEntryContains(enrichment, q) ==
    /\ enrichment.desc_attr.present
    /\ enrichment.desc_attr.val # <<>>
    /\ \E i \in 1..Len(enrichment.desc_attr.val) :
           ContainsCI(enrichment.desc_attr.val[i], q)

\* The sum of the contributions an item earns without its enrichment, the
\* description counting when `descOk` says it is there.
BaseSum(item, q, descOk) ==
    5 * Ind(AnyTitleContains(item, q))
      + 3 * Ind(ContainsCI(item.creator, q))
      + 2 * Ind(descOk /\ ContainsCI(item.description.val, q))

DescriptionPresent(item) == item.description.present

DescriptionNonEmpty(item) ==
    item.description.present /\ item.description.val # <<>>

Terminal == pc \in {"done", "error"}

\* The enrichment loop has run to its end (the pipeline is at or past the sort).
Scored == pc \in {"expand", "done"} \/ (pc = "error" /\ pos > 0)

\* The index of the fetch-log entry of object number id.
FetchIndex(id) ==
    CHOOSE k \in 1..Len(fetchLog) : fetchLog[k].object_number = id

Logged(id) == \E k \in 1..Len(fetchLog) : fetchLog[k].object_number = id

\* The enrichment the provider's answer in log entry e amounts to.
EnrichmentOf(e) == IF e.outcome = "ok" THEN e.body.val ELSE EmptyEnrichment

\* An item has a title whose ratio against the query reaches the threshold.
ReachesThreshold(item) ==
    \E i \in 1..Len(item.titles) :
        RatioTable[processor, query, item.titles[i]] >= 80

\* The filter as specified: the items reaching the threshold, in order, or
\* all of them when none does.
SpecifiedFilter(its) ==
    LET kept == SelectSeq(its, ReachesThreshold)
    IN  IF kept = <<>> THEN its ELSE kept

(***************************************************************************)
(* C1.  As stated: every relevance equals min(1.0, 0.5*[title match] +     *)
(* 0.3*[creator match] + 0.2*[description present and contains the query]  *)
(* + 0.2*[enrichment attribute present, non-empty, an entry contains the   *)
(* query]) and lies in [0, 1].  The code skips a description that is       *)
(* present but empty, which the empty query is a substring of.             *)
(***************************************************************************)
C1_RelevanceFormulaAsStated ==
    \A i \in 1..Len(results) :
        LET r == results[i]
        IN  /\ r.relevance =
                 Min2(10, BaseSum(r.item, query, DescriptionPresent(r.item))
                            + 2 * Ind(AnyEntryContains(r.enrichment, query)))
            /\ r.relevance \in 0..10

\* C1 amended: the description contributes when it is present, non-empty and
\* contains the query; each contribution is added at most once; every
\* relevance, in the accumulator and in the response, lies in [0, 1].
C1_RelevanceFormula ==
    /\ \A i \in 1..Len(results) :
         LET r == results[i]
         IN  /\ r.relevance =
                  Min2(10, BaseSum(r.item, query, DescriptionNonEmpty(r.item))
                             + 2 * Ind(AnyEntryContains(r.enrichment, query)))
             /\ r.relevance \in 0..10
    /\ response.present =>
         \A i \in 1..Len(response.val) : response.val[i].relevance \in 0..10

\* C1 witness: the response holds a result whose four contributions sum to
\* 1.2, two of its enrichment entries matching, with relevance 1.0, and a
\* result with two matching titles and relevance 0.5.
C1_Witness ==
    /\ pc = "done"
    /\ \E i \in 1..Len(response.val) :
         LET r == response.val[i]
         IN  /\ BaseSum(r.item, query, TRUE)
                  + 2 * Ind(AnyEntryContains(r.enrichment, query)) = 12
             /\ Cardinality({k \in 1..Len(r.enrichment.desc_attr.val) :
                    ContainsCI(r.enrichment.desc_attr.val[k], query)}) > 1
             /\ r.relevance = 10
    /\ \E i \in 1..Len(response.val) :
         LET r == response.val[i]
         IN  /\ Cardinality({k \in 1..Len(r.item.titles) :
                    ContainsCI(r.item.titles[k], query)}) > 1
             /\ r.relevance = 5

(***************************************************************************)
(* C2.  A failed enrichment fetch gives its candidate an all-empty         *)
(* Enrichment and a relevance without enrichment contribution; the         *)
(* pipeline goes on to score every candidate; and the enrichment and the   *)
(* relevance of each result are determined by its own item, the query and  *)
(* its own fetch alone, so no other candidate's failure can change them.   *)
(***************************************************************************)
C2_EnrichmentFailureIsolated ==
    /\ Len(results) = Len(fetchLog)
    /\ (Scored \/ (pc = "error" /\ fetchLog # <<>>)) =>
         Len(results) = Len(best_match_items)
    /\ \A i \in 1..Len(results) :
         LET r == results[i]
         IN  /\ Logged(r.item.object_number)
             /\ LET e == fetchLog[FetchIndex(r.item.object_number)]
                IN  /\ r.enrichment = EnrichmentOf(e)
                    /\ r.relevance =
                         Min2(10, BaseSum(r.item, query, DescriptionNonEmpty(r.item))
                                    + 2 * Ind(AnyEntryContains(EnrichmentOf(e), query)))
                    /\ e.outcome # "ok" =>
                         /\ r.enrichment = EmptyEnrichment
                         /\ r.relevance =
                              Min2(10, BaseSum(r.item, query,
                                               DescriptionNonEmpty(r.item)))

\* C2 witness: the run ended with a response in which one candidate's fetch
\* failed and another's succeeded and earned the enrichment contribution.
C2_Witness ==
    /\ pc = "done"
    /\ \E i, j \in 1..Len(fetchLog) :
         /\ fetchLog[i].outcome = "status"
         /\ fetchLog[j].outcome = "ok"
         /\ \E k \in 1..Len(response.val) :
              /\ response.val[k].item.object_number = fetchLog[j].object_number
              /\ AnyEntryContains(response.val[k].enrichment, query)
              /\ response.val[k].relevance =
                   BaseSum(response.val[k].item, query, TRUE) + 2

(***************************************************************************)
(* C3.  A failed catalog fetch ends the search with one status-500 error   *)
(* carrying a detail string and no result sequence; a run that has ended   *)
(* has either a response holding every ranked result or one status-500     *)
(* error, never both; a run that has not ended stands at a step whose      *)
(* guard holds.                                                            *)
(***************************************************************************)
C3_CatalogFailureIsFatal ==
    /\ catalog \in {"transport", "status", "malformed"} =>
         /\ pc = "error"
         /\ error.present
         /\ error.val.status_code = 500
         /\ error.val.detail # ""
         /\ ~response.present
         /\ results = <<>> /\ filtered_results = <<>> /\ fetchLog = <<>>
    /\ response.present <=> pc = "done"
    /\ error.present <=> pc = "error"
    /\ error.present => error.val.status_code = 500 /\ error.val.detail # ""
    /\ pc = "done" =>
         /\ Len(results) = Len(best_match_items)
         /\ \A i \in 1..Len(results) :
              \E k \in 1..Len(response.val) : response.val[k] = results[i]
    /\ ~Terminal =>
         \/ pc \in {"catalog", "fuzzy"}
         \/ pc = "enrich" /\ Len(results) <= Len(best_match_items)
         \/ pc = "expand" /\ pos <= Len(results)

\* C3 witness: the catalog answered with a non-success status and the run
\* ended in the error.
C3_Witness == catalog = "status" /\ pc = "error" /\ error.present

(***************************************************************************)
(* C4.  For every non-empty catalog answer, items without titles included, *)
(* the fuzzy filter completes and yields the non-empty sequence the        *)
(* specification describes.                                                *)
(***************************************************************************)
C4_FilterCompletes ==
    (catalog = "ok" /\ items # <<>> /\ pc # "fuzzy") =>
        /\ best_match_items # <<>>
        /\ best_match_items = SpecifiedFilter(items)

(***************************************************************************)
(* C5.  After the sort the results are in non-increasing order of          *)
(* relevance, results of equal relevance are in the order their candidates *)
(* were fetched, and the results are those that were scored.               *)
(***************************************************************************)
C5_SortedStable ==
    Scored =>
        /\ Len(results) = Len(fetchLog)
        /\ \A k \in 1..Len(fetchLog) :
             \E i \in 1..Len(results) :
                 results[i].item.object_number = fetchLog[k].object_number
        /\ \A i \in 1..Len(results) : Logged(results[i].item.object_number)
        /\ \A i \in 1..(Len(results) - 1) :
             results[i].relevance >= results[i + 1].relevance
        /\ \A i, j \in 1..Len(results) :
             (i < j /\ results[i].relevance = results[j].relevance) =>
                 FetchIndex(results[i].item.object_number)
                     < FetchIndex(results[j].item.object_number)

\* C5 witness: three results, the last fetched ranked first and two of equal
\* relevance kept in fetch order.
C5_Witness ==
    /\ pc = "expand"
    /\ Len(results) = 3
    /\ results[1].item.object_number = fetchLog[3].object_number
    /\ results[2].relevance = results[3].relevance
    /\ results[1].relevance > results[2].relevance

(***************************************************************************)
(* C6.  When the catalog answers successfully with no items the search     *)
(* issues no further call, raises no error and returns an empty result     *)
(* sequence, whatever the query.                                           *)
(***************************************************************************)
C6_EmptyCatalogEmptyResponse ==
    (catalog = "ok" /\ items = <<>> /\ pc # "fuzzy") =>
        /\ pc \in {"enrich", "expand", "done"}
        /\ ~error.present
        /\ fetchLog = <<>> /\ relatedCalls = <<>>
        /\ pc = "done" => response = Some(<<>>)

\* C6 witness: such a run has returned.
C6_Witness ==
    /\ catalog = "ok" /\ items = <<>> /\ pc = "done"
    /\ response = Some(<<>>)
    /\ query = S_Blomst

C8_Scenario ==
    /\ query = S_rose
    /\ catalog = "ok"
    /\ items = <<SMKItem("KMS1", <<S_RedRose>>, S_Anon, NoneVal)>>
    /\ pc = "done"
    /\ \A k \in 1..Len(fetchLog) : EnrichmentOf(fetchLog[k]) = EmptyEnrichment

\* C8 as stated: the ratio of "rose" against "Red Rose" is at least 80, the
\* item is kept by the threshold, and the response is one result of
\* relevance 0.5.
C8_ScenarioAsStated ==
    C8_Scenario =>
        /\ ratio(Preprocess(processor, S_rose), Preprocess(processor, S_RedRose))
               >= 80
        /\ Len(response.val) = 1
        /\ response.val[1].relevance = 5

\* C8 amended: the ratio is below 80 (50 as the strings are, 66 after
\* default_process), the item is kept by the override for an empty retained
\* set, and the response is one result of relevance 0.5.
C8_ScenarioByOverride ==
    C8_Scenario =>
        /\ ratio(Preprocess(processor, S_rose), Preprocess(processor, S_RedRose))
               = (IF processor = "none" THEN 50 ELSE 66)
        /\ SelectSeq(items, ReachesThreshold) = <<>>
        /\ best_match_items = items
        /\ Len(fetchLog) = 1
        /\ Len(response.val) = 1
        /\ response.val[1].item = items[1]
        /\ response.val[1].enrichment = EmptyEnrichment
        /\ response.val[1].relevance = 5

\* C8 witness: the scenario is reached.
C8_Witness ==
    /\ C8_Scenario
    /\ Len(response.val) = 1
    /\ fetchLog[1].outcome = "ok"
    /\ processor = "none"

(***************************************************************************)
(* C9.  Expansion keeps the ranked results unchanged and in order, calls   *)
(* discovery once for each result with a matching enrichment entry and for *)
(* no other, and, discovery returning nothing, returns the ranked          *)
(* sequence.                                                               *)
(***************************************************************************)
C9_ExpansionReturnsRanked ==
    /\ pos <= Len(results)
    /\ filtered_results = SubSeq(results, 1, pos)
    /\ relatedCalls =
         [r \in 1..Len(SelectSeq(SubSeq(results, 1, pos),
                 LAMBDA x : AnyEntryContains(x.enrichment, query))) |->
             SelectSeq(SubSeq(results, 1, pos),
                 LAMBDA x : AnyEntryContains(x.enrichment, query))[r]
                     .item.object_number]
    /\ pos > 0 => pc \in {"expand", "done"}
    /\ pc = "done" => response = Some(results)

(***************************************************************************)
(* C10.  An enrichment fetch is issued only after the catalog fetch has    *)
(* succeeded, once for each candidate surviving the fuzzy filter, in their *)
(* order, never for an item the filter removed, and not at all when the    *)
(* catalog fetch fails or returns no items.                                *)
(***************************************************************************)
C10_EnrichmentFetchOrder ==
    /\ fetchLog # <<>> => catalog = "ok" /\ pc \notin {"catalog", "fuzzy"}
    /\ (catalog # "ok" \/ items = <<>>) => fetchLog = <<>>
    /\ Len(fetchLog) <= Len(best_match_items)
    /\ LET survivors == Range(SpecifiedFilter(items))
       IN  \A k \in 1..Len(fetchLog) :
             /\ fetchLog[k].object_number = best_match_items[k].object_number
             /\ best_match_items[k] \in survivors
    /\ \A k, l \in 1..Len(fetchLog) :
         k # l => fetchLog[k].object_number # fetchLog[l].object_number
    /\ Scored => Len(fetchLog) = Len(best_match_items)

\* C10 witness: the filter removed an item, kept two, and the run returned
\* after one fetch for each of the two.
C10_Witness ==
    /\ pc = "done"
    /\ Len(items) = 3
    /\ Len(best_match_items) = 2
    /\ Len(fetchLog) = 2

=============================================================================
